---- MODULE Spec2Model ----
(***************************************************************************)
(* Model of src/hook/useToken.ts: the useToken hook (polling effects,      *)
(* on-demand allowance query, approve actions, Transfer/Approval handlers) *)
(* and the useContractEvent hook (stale-callback-safe event subscriber).   *)
(*                                                                         *)
(* One render of a hook together with the effects React commits for it is  *)
(* one step.  An awaited contract read is a record in `pending`; its       *)
(* continuation runs in a later step and uses the values its closure       *)
(* captured when the read was issued.                                      *)
(*                                                                         *)
(* Three specifications run the same definitions:                          *)
(*   SpecSub  one useContractEvent instance on its own, whose contract,    *)
(*            eventName and callback arguments all change;                 *)
(*   Spec     the data feeds of useToken: renders, queries, Transfer and   *)
(*            Approval events, reads settling in any order;                *)
(*   SpecAct  approve and approveInfinity, among renders that change the   *)
(*            contract binding or the signer, queries and settling reads.  *)
(* Not in this file, and modelled from their documented contract:          *)
(* util/format (bigNum2Big, big2BigNum), constant/number (BIG_ZERO),       *)
(* useContractCall and Transaction.executeWithGasLimit.                    *)
(***************************************************************************)
EXTENDS Integers, Sequences, FiniteSets, Bags

NULL == "null"

\* ------------------------------------------------------------------ bounds
\* number of contract.on calls one standalone useContractEvent may make
MaxListeners == 3
\* number of stimuli (renders, queries, events, approvals) one useToken
\* instance receives after its first render
MaxStimuli == 2
\* number of contract objects that may be referenced at the same time
MaxContracts == 3

\* ------------------------------------------------------------- input sets
\* a contract object: its identity and the address it is attached to;
\* NoContract is the null contract
NoContract == [id |-> 0, address |-> ""]
\* contract objects handed to a standalone useContractEvent
Contracts == {[id |-> 1, address |-> "a1"], [id |-> 2, address |-> "a2"]}
EventNames == {"Transfer", "Approval"}
\* handler functions handed to a standalone useContractEvent
Handlers == {"h1", "h2"}

VARIABLES
    \* emitter registry: the listeners registered with contract.on and not
    \* yet removed with contract.off
    listeners,
    \* ---- a standalone useContractEvent instance
    uceProps,   \* arguments of its latest render
    uce,        \* its hook state: savedCallback ref, effect deps, cleanup
    onCalls,    \* number of contract.on calls made
    offCalls,   \* number of contract.off calls made
    calls,      \* the contract.on / contract.off calls of its latest commit, in order
    skipped,    \* a run of its subscribing effect has installed nothing
    invoked,    \* handlers invoked by events delivered since the last render
    mounted,    \* the owning component is mounted
    \* ---- a useToken instance: its arguments and container values
    address, decimals, erc20, multicallProvider, account, signer,
    contract,     \* useMemo: erc20?.attach(address) || null
    balance, totalSupply, allowance,    \* useState
    subs,         \* its two useContractEvent instances, by event name
    pending,      \* the bag of awaited contract reads
    newestDone,   \* per polling feed: its latest-issued read has resolved
    writer,       \* per allowance key: the origin of the read that wrote it
    balanceRead,  \* the address and account of the read whose result balance holds
    last,         \* the operation on the data feeds that made the latest step
    lastCall,     \* the latest approve / approveInfinity call and its outcome
    stimuli       \* number of stimuli received since the first render

subVars == <<uceProps, uce, onCalls, offCalls, calls, skipped, invoked, mounted>>
propVars == <<address, decimals, erc20, multicallProvider, account, signer>>
viewVars == <<balance, totalSupply, allowance>>
tokVars == <<propVars, contract, viewVars, subs, pending, newestDone, writer, balanceRead,
            last, lastCall,
            stimuli>>
vars == <<listeners, subVars, tokVars>>

\* ------------------------------------------------------- useContractEvent
\* the listener function created by one run of the subscribing effect; it
\* closes over the hook's savedCallback ref.  `installedWith` is the callback
\* argument of the render that created it.
NewListener(c, e, lid, cb) ==
    [contract |-> c, eventName |-> e, lid |-> lid, installedWith |-> cb]

\* contract.on(eventName, listener)
On(ls, l) == ls \cup {l}

\* contract.off(eventName, listener): removes that function from that
\* contract's listeners of that event
\* (passed a function that was never registered, it removes nothing)
OffOther(ls, c, e, lid) == ls
Off(ls, c, e, lid) ==
    {l \in ls : ~(l.contract = c /\ l.eventName = e /\ l.lid = lid)}

\* the cleanup function the subscribing effect returns
\* (a set: empty when the effect returned nothing)
NoCleanup(l) == {}
EffectCleanup(l) == {[contract |-> l.contract, eventName |-> l.eventName, lid |-> l.lid]}

\* what the listener calls when an event arrives
\* (savedCallback.current is <<>> while undefined, else <<callback>>)
StaleCallback(saved, l) == <<l.installedWith>>
ListenerCall(saved, l) == IF saved # <<>> THEN <<saved[1]>> ELSE <<>>

\* hook state before the first commit
UceFresh == [saved |-> <<>>, mountedOnce |-> FALSE, deps |-> <<NoContract, "">>, cleanup |-> {}]

\* React runs the cleanup of an effect before re-running it, and at unmount
RunCleanup(ls, cleanup) ==
    {l \in ls : \A k \in cleanup : l \in Off(ls, k.contract, k.eventName, k.lid)}

\* a contract.on / contract.off call: the contract it is made on, the event
\* name and the listener function passed
Call(op, k) == [op |-> op, contract |-> k.contract, eventName |-> k.eventName, lid |-> k.lid]

\* the contract.off calls made by running `cleanup`
CleanupCalls(cleanup) == IF cleanup = {} THEN <<>> ELSE <<Call("off", CHOOSE k \in cleanup : TRUE)>>

\* if (contract && eventName)
SubscribeAlways(c, e) == TRUE
SubscribeGuard(c, e) == c # NoContract /\ e # ""

\* the subscribing effect re-runs when [contract, eventName] changed
\* (without a dependency list it would re-run on every render)
DepsAlways(inst, c, e) == TRUE
DepsChanged(inst, c, e) == ~inst.mountedOnce \/ inst.deps # <<c, e>>

\* one commit of useContractEvent(contract, eventName, callback):
\* returns the new hook state, the new registry and the on/off calls made
UceCommit(inst, ls, c, e, cb, lid) ==
    IF ~DepsChanged(inst, c, e)
    THEN [inst |-> [inst EXCEPT !.saved = <<cb>>], ls |-> ls, on |-> 0, off |-> 0,
          calls |-> <<>>]
    ELSE LET cleaned == RunCleanup(ls, inst.cleanup)
             offs == Cardinality(inst.cleanup)
         IN IF SubscribeGuard(c, e)
            THEN LET l == NewListener(c, e, lid, cb)
                 IN [inst |-> [saved |-> <<cb>>, mountedOnce |-> TRUE, deps |-> <<c, e>>,
                               cleanup |-> EffectCleanup(l)],
                     ls |-> On(cleaned, l), on |-> 1, off |-> offs,
                     calls |-> CleanupCalls(inst.cleanup) \o <<Call("on", l)>>]
            ELSE [inst |-> [saved |-> <<cb>>, mountedOnce |-> TRUE, deps |-> <<c, e>>,
                           cleanup |-> {}],
                  ls |-> cleaned, on |-> 0, off |-> offs,
                  calls |-> CleanupCalls(inst.cleanup)]

\* unmount: the cleanup of the subscribing effect runs
UceUnmount(inst, ls) ==
    [inst |-> [inst EXCEPT !.cleanup = {}],
     ls |-> RunCleanup(ls, inst.cleanup),
     off |-> Cardinality(inst.cleanup),
     calls |-> CleanupCalls(inst.cleanup)]

\* the listeners of contract c for event e, in registration order
RECURSIVE Ordered(_)
Ordered(S) ==
    IF S = {} THEN <<>>
    ELSE LET first == CHOOSE l \in S : \A m \in S : l.lid <= m.lid
         IN <<first>> \o Ordered(S \ {first})

Registered(ls, c, e) == Ordered({l \in ls : l.contract = c /\ l.eventName = e})

RECURSIVE Deliver(_, _)
Deliver(saved, ls) ==
    IF ls = <<>> THEN <<>>
    ELSE ListenerCall(saved, Head(ls)) \o Deliver(saved, Tail(ls))

\* --------------------------------------------------------------- useToken
\* the tokens the hook is used for: useToken(address, decimals)
Tokens == {[address |-> "a1", decimals |-> 0], [address |-> "a2", decimals |-> 1]}
\* Connection.account when a wallet is connected
Accounts == {"u1"}
\* addresses that appear in Transfer / Approval events
Parties == {"u1", "u2"}
Spenders == {"s1", "s2", "s3"}
\* raw on-chain integers a read may return
RawValues == {10}
\* how an awaited read settles: it resolves with a raw integer, or rejects
Resolved(v) == [ok |-> TRUE, raw |-> v]
Rejection == [ok |-> FALSE]
Settlements == {Resolved(v) : v \in RawValues} \cup {Rejection}
\* identities of the contract objects erc20.attach creates
ContractIds == 1..MaxContracts

\* a Big: m * 10^-e with no trailing zero in the fraction
RECURSIVE Big(_, _)
Big(m, e) == IF e > 0 /\ m % 10 = 0 THEN Big(m \div 10, e - 1) ELSE [m |-> m, e |-> e]

BIG_ZERO == Big(0, 0)

\* util/format bigNum2Big: the raw integer divided by 10^decimals
bigNum2Big(raw, dec) == Big(raw, dec)

\* util/format big2BigNum: the raw integer of a Big (its scale is not in
\* this file; kept as the application of the conversion)
big2BigNum(b) == [big2BigNum |-> b]

\* ethers constants.MaxUint256 = 2^256 - 1
MaxUint256 == [ones |-> 256]

\* amounts handed to approve
Amounts == {Big(1, 0), Big(5, 1)}

Props == [address |-> address, decimals |-> decimals, erc20 |-> erc20,
          multicallProvider |-> multicallProvider, account |-> account,
          signer |-> signer]

AllProps ==
    {[address |-> t.address, decimals |-> t.decimals, erc20 |-> e,
      multicallProvider |-> m, account |-> a, signer |-> g] :
        t \in Tokens, e \in {NULL, "erc20"}, m \in {NULL, "multicall"},
        a \in Accounts \cup {NULL}, g \in {NULL, "signer"}}

\* an awaited read with what its continuation closes over
\* (`superseded`: the same polling feed has issued a later read since)
Req(origin, method, addr, who, spender, dec) ==
    [origin |-> origin, method |-> method, address |-> addr, who |-> who,
     spender |-> spender, decimals |-> dec, superseded |-> FALSE]

\* erc20?.attach(address) || null : a new contract object
FreshId(cur, ls) ==
    CHOOSE i \in ContractIds :
        /\ i # cur.id /\ \A l \in ls : l.contract.id # i
        /\ \A j \in ContractIds :
              (j # cur.id /\ \A l \in ls : l.contract.id # j) => i <= j

HasFreshId(cur, ls) ==
    \E i \in ContractIds : i # cur.id /\ \A l \in ls : l.contract.id # i

AttachContract(e, a, cur, ls) ==
    IF e # NULL THEN [id |-> FreshId(cur, ls), address |-> a] ELSE NoContract

\* if (erc20 && multicallProvider && address)
FetchTokenGuard(p) == p.erc20 # NULL /\ p.multicallProvider # NULL /\ p.address # ""

\* if (erc20 && multicallProvider && address && account)
FetchBalanceNoAccountCheck(p) == p.erc20 # NULL /\ p.multicallProvider # NULL /\ p.address # ""
FetchBalanceGuard(p) ==
    p.erc20 # NULL /\ p.multicallProvider # NULL /\ p.address # "" /\ p.account # NULL

\* the fetchToken effect: runs when [erc20, multicallProvider, address, decimals] changed
FetchToken(first, old, p) ==
    IF (first \/ <<old.erc20, old.multicallProvider, old.address, old.decimals>>
                 # <<p.erc20, p.multicallProvider, p.address, p.decimals>>)
       /\ FetchTokenGuard(p)
    THEN <<Req("fetchToken", "totalSupply", p.address, "", "", p.decimals)>>
    ELSE <<>>

\* the fetchBalance effect: runs when [erc20, multicallProvider, address, account, decimals] changed
FetchBalance(first, old, p) ==
    IF (first \/ <<old.erc20, old.multicallProvider, old.address, old.account, old.decimals>>
                 # <<p.erc20, p.multicallProvider, p.address, p.account, p.decimals>>)
       /\ FetchBalanceGuard(p)
    THEN <<Req("fetchBalance", "balanceOf", p.address, p.account, "", p.decimals)>>
    ELSE <<>>

\* the handlers passed to useContractEvent close over the render's
\* contract, account and decimals
Closure(c, p) == [contract |-> c, account |-> p.account, decimals |-> p.decimals]

\* one commit of useToken with arguments and container values p
TokenCommit(first, old, p, oldContract, oldSubs, ls) ==
    LET c  == IF first \/ <<old.erc20, old.address>> # <<p.erc20, p.address>>
              THEN AttachContract(p.erc20, p.address, oldContract, ls)
              ELSE oldContract
        tr == UceCommit(oldSubs["Transfer"], ls, c, "Transfer", Closure(c, p), c.id)
        ap == UceCommit(oldSubs["Approval"], tr.ls, c, "Approval", Closure(c, p), c.id)
    IN [contract |-> c,
        reads |-> FetchToken(first, old, p) \o FetchBalance(first, old, p),
        subs |-> [e \in EventNames |-> IF e = "Transfer" THEN tr.inst ELSE ap.inst],
        ls |-> ap.ls]

\* the Transfer handler
TransferAlways(cb, from, to) == cb.contract # NoContract
TransferGuard(cb, from, to) ==
    cb.contract # NoContract /\ (from = cb.account \/ to = cb.account)

OnTransfer(cb, from, to) ==
    IF TransferGuard(cb, from, to)
    THEN <<Req("Transfer", "balanceOf", cb.contract.address, cb.account, "", cb.decimals)>>
    ELSE <<>>

\* the reads issued by the callbacks one Transfer event invokes
RECURSIVE TransferReads(_, _, _)
TransferReads(cbs, from, to) ==
    IF cbs = <<>> THEN <<>>
    ELSE OnTransfer(Head(cbs), from, to) \o TransferReads(Tail(cbs), from, to)

\* the Approval handler
ApprovalAlways(cb, owner, spender) == cb.contract # NoContract
ApprovalGuard(cb, owner, spender) == cb.contract # NoContract /\ owner = cb.account

\* (owner and spender exchanged in the read)
OnApprovalSwapped(cb, owner, spender) ==
    IF ApprovalGuard(cb, owner, spender)
    THEN <<Req("Approval", "allowance", cb.contract.address, spender, owner, cb.decimals)>>
    ELSE <<>>
OnApproval(cb, owner, spender) ==
    IF ApprovalGuard(cb, owner, spender)
    THEN <<Req("Approval", "allowance", cb.contract.address, owner, spender, cb.decimals)>>
    ELSE <<>>

\* the reads issued by the callbacks one Approval event invokes
RECURSIVE ApprovalReads(_, _, _)
ApprovalReads(cbs, owner, spender) ==
    IF cbs = <<>> THEN <<>>
    ELSE OnApproval(Head(cbs), owner, spender) \o ApprovalReads(Tail(cbs), owner, spender)

\* setAllowance(prev => ({ ...prev, [spender]: value }))
ReplaceAllowance(prev, spender, value) == [s \in {spender} |-> value]
MergeAllowance(prev, spender, value) ==
    [s \in DOMAIN prev \cup {spender} |-> IF s = spender THEN value ELSE prev[s]]

\* if (spender && contract && account)
QueryNoContractCheck(spender, c, acc) == spender # "" /\ acc # NULL
QueryGuard(spender, c, acc) == spender # "" /\ c # NoContract /\ acc # NULL

\* contract!.connect(signer): a TypeError when contract is null, else the
\* contract bound to the signer (ethers accepts an absent signer and
\* returns a contract that has none)
Connect(c, g) ==
    IF c = NoContract THEN [raised |-> TRUE]
    ELSE [raised |-> FALSE, contract |-> c, signer |-> g]

\* the arguments approve / approveInfinity hand to executeWithGasLimit
ApproveArgs(spender, amount) == [spender |-> spender, amount |-> big2BigNum(amount)]
FiniteArgs(spender) == [spender |-> spender, amount |-> big2BigNum(Big(1, 0))]
InfinityArgs(spender) == [spender |-> spender, amount |-> MaxUint256]

\* the body of approve / approveInfinity up to the call of
\* executeWithGasLimit: the call it makes, or none when it raised before
ExecCall(c, g, args) ==
    LET bound == Connect(c, g)
    IN IF bound.raised THEN <<>>
       ELSE <<[contract |-> bound.contract, signer |-> bound.signer,
               method |-> "approve", args |-> args]>>

\* executeWithGasLimit resolves with a receipt or rejects; it cannot send
\* without a signer
ExecOutcomes(call) == IF call.signer = NULL THEN {"rejected"} ELSE {"receipt", "rejected"}

\* useContractCall: the outcome the wrapped action reports to its caller
useContractCall(raised) == IF raised THEN "failure" ELSE "receipt"

\* balance holds its initial value, the result of no read
NoRead == [address |-> "", who |-> ""]

Polls == {"fetchToken", "fetchBalance"}

\* the data feeds, named by what issues their reads
Feeds == Polls \cup {"queryAllowanceBySpender", "Transfer", "Approval"}

\* the code after an `await` runs only when the awaited read resolved; a
\* rejection leaves the async function at the await
\* (a handler that caught the rejection would go on to store a value)
ContinuesAlways(res) == TRUE
Continues(res) == res.ok

RECURSIVE SeqToBag(_)
SeqToBag(q) == IF q = <<>> THEN EmptyBag ELSE SetToBag({Head(q)}) (+) SeqToBag(Tail(q))

\* `reads` holds a new read of the polling feed f
Issues(reads, f) == f \in Polls /\ \E k \in 1..Len(reads) : reads[k].origin = f

\* the reads in flight once `reads` are issued: a read of a polling feed
\* that issues a new read is superseded
Supersede(r, reads) ==
    IF Issues(reads, r.origin) THEN [r EXCEPT !.superseded = TRUE] ELSE r

Issue(bag, reads) ==
    LET S == {Supersede(r, reads) : r \in BagToSet(bag)}
        old == [x \in S |->
                  LET twin == [x EXCEPT !.superseded = FALSE]
                  IN (IF BagIn(x, bag) THEN CopiesIn(x, bag) ELSE 0)
                     + (IF twin # x /\ Issues(reads, x.origin) /\ BagIn(twin, bag)
                        THEN CopiesIn(twin, bag) ELSE 0)]
    IN old (+) SeqToBag(reads)

MarkIssued(nd, reads) == [f \in Polls |-> IF Issues(reads, f) THEN FALSE ELSE nd[f]]

\* ------------------------------------------------------- useToken: steps
\* the hook is not in use
TokIdle ==
    /\ address = "a1" /\ decimals = 0 /\ erc20 = NULL
    /\ multicallProvider = NULL /\ account = NULL /\ signer = NULL
    /\ contract = NoContract
    /\ balance = BIG_ZERO /\ totalSupply = BIG_ZERO /\ allowance = <<>>
    /\ subs = [e \in EventNames |-> UceFresh]
    /\ pending = EmptyBag
    /\ newestDone = [f \in Polls |-> FALSE]
    /\ writer = <<>>
    /\ balanceRead = NoRead
    /\ last = [op |-> "none"]
    /\ lastCall = [op |-> "none"]
    /\ stimuli = 0

SubIdle ==
    /\ uceProps = [contract |-> NoContract, eventName |-> "", callback |-> "h1"]
    /\ uce = UceFresh
    /\ onCalls = 0 /\ offCalls = 0 /\ calls = <<>> /\ skipped = FALSE
    /\ invoked = <<>> /\ mounted = FALSE

\* the first render of useToken, with arguments and container values p,
\* and its effects
Mount(p) ==
    /\ SubIdle
    /\ LET r == TokenCommit(TRUE, p, p, NoContract, [e \in EventNames |-> UceFresh], {})
       IN /\ address = p.address /\ decimals = p.decimals /\ erc20 = p.erc20
          /\ multicallProvider = p.multicallProvider
          /\ account = p.account /\ signer = p.signer
          /\ contract = r.contract
          /\ subs = r.subs
          /\ listeners = r.ls
          /\ pending = Issue(EmptyBag, r.reads)
    /\ newestDone = [f \in Polls |-> FALSE]
    /\ writer = <<>>
    /\ balanceRead = NoRead
    /\ balance = BIG_ZERO /\ totalSupply = BIG_ZERO /\ allowance = <<>>
    /\ last = [op |-> "mount"]
    /\ lastCall = [op |-> "none"]
    /\ stimuli = 0

\* one more stimulus is received
Stimulus == stimuli < MaxStimuli /\ stimuli' = stimuli + 1

\* a re-render with new arguments or container values p
Render(p) ==
    /\ Stimulus
    /\ p # Props
    /\ <<erc20, address>> # <<p.erc20, p.address>> => HasFreshId(contract, listeners)
    /\ LET r == TokenCommit(FALSE, Props, p, contract, subs, listeners)
       IN /\ contract' = r.contract
          /\ subs' = r.subs
          /\ listeners' = r.ls
          /\ pending' = Issue(pending, r.reads)
          /\ newestDone' = MarkIssued(newestDone, r.reads)
    /\ address' = p.address /\ decimals' = p.decimals /\ erc20' = p.erc20
    /\ multicallProvider' = p.multicallProvider
    /\ account' = p.account /\ signer' = p.signer
    /\ last' = [op |-> "render"]
    /\ UNCHANGED <<viewVars, subVars, writer, balanceRead,
                   lastCall>>

\* queryAllowanceBySpender(spender)
Query(spender) ==
    /\ Stimulus
    /\ LET reads == IF QueryGuard(spender, contract, account)
                    THEN <<Req("queryAllowanceBySpender", "allowance",
                               contract.address, account, spender, decimals)>>
                    ELSE <<>>
       IN pending' = Issue(pending, reads)
    /\ last' = [op |-> "queryAllowanceBySpender", spender |-> spender]
    /\ UNCHANGED <<listeners, subVars, propVars, contract, viewVars, subs,
                   newestDone, writer, balanceRead,
                   lastCall>>

\* the contract object c emits Transfer(from, to)
EmitTransfer(c, from, to) ==
    /\ Stimulus
    /\ LET cbs == Deliver(subs["Transfer"].saved, Registered(listeners, c, "Transfer"))
       IN /\ pending' = Issue(pending, TransferReads(cbs, from, to))
          /\ last' = [op |-> "Transfer", from |-> from, to |-> to,
                      delivered |-> Len(cbs)]
    /\ UNCHANGED <<listeners, subVars, propVars, contract, viewVars, subs,
                   newestDone, writer, balanceRead,
                   lastCall>>

\* the contract object c emits Approval(owner, spender)
EmitApproval(c, owner, spender) ==
    /\ Stimulus
    /\ LET cbs == Deliver(subs["Approval"].saved, Registered(listeners, c, "Approval"))
       IN /\ pending' = Issue(pending, ApprovalReads(cbs, owner, spender))
          /\ last' = [op |-> "Approval", owner |-> owner, spender |-> spender,
                      delivered |-> Len(cbs)]
    /\ UNCHANGED <<listeners, subVars, propVars, contract, viewVars, subs,
                   newestDone, writer, balanceRead,
                   lastCall>>

\* the state setter the continuation of the read r calls
\* (the balance feed calling the setter of the total-supply feed)
SetterCopied(r) == IF r.method = "allowance" THEN "setAllowance" ELSE "setTotalSupply"
\* (the balance reads calling the setter of the allowance reads)
SetterAllowance(r) == IF r.method = "totalSupply" THEN "setTotalSupply" ELSE "setAllowance"
Setter(r) ==
    IF r.method = "totalSupply" THEN "setTotalSupply"
    ELSE IF r.method = "balanceOf" THEN "setBalance"
    ELSE "setAllowance"

\* the view-state of the hook
View == [balance |-> balance, totalSupply |-> totalSupply, allowance |-> allowance]

\* the view-state after the read r has settled as res, from the view-state
\* `view` current at that time
Written(view, r, res) ==
    LET ok == Continues(res)
        value == IF res.ok THEN bigNum2Big(res.raw, r.decimals) ELSE BIG_ZERO
    IN [totalSupply |-> IF ok /\ Setter(r) = "setTotalSupply" THEN value
                        ELSE view.totalSupply,
        balance |-> IF ok /\ Setter(r) = "setBalance" THEN value ELSE view.balance,
        allowance |-> IF ok /\ Setter(r) = "setAllowance"
                      THEN MergeAllowance(view.allowance, r.spender, value)
                      ELSE view.allowance]

\* the awaited read r settles as res and its continuation runs
Complete(r, res) ==
    /\ BagIn(r, pending)
    /\ LET ok == Continues(res)
           w == Written(View, r, res)
       IN /\ totalSupply' = w.totalSupply
          /\ balance' = w.balance
          /\ allowance' = w.allowance
          /\ newestDone' = IF r.origin \in Polls /\ ~r.superseded
                            THEN [newestDone EXCEPT ![r.origin] = ok]
                            ELSE newestDone
          /\ writer' = IF ok /\ r.method = "allowance"
                        THEN MergeAllowance(writer, r.spender, r.origin)
                        ELSE writer
          /\ balanceRead' = IF ok /\ Setter(r) = "setBalance"
                             THEN [address |-> r.address, who |-> r.who]
                             ELSE balanceRead
          /\ last' = [op |-> "complete", origin |-> r.origin, spender |-> r.spender,
                      ok |-> ok]
    /\ pending' = pending (-) SetToBag({r})
    /\ UNCHANGED <<listeners, subVars, propVars, contract, subs, stimuli, lastCall>>

\* (an approve that stores the approved amount itself when the transaction
\* succeeds)
ApproveOptimistic(spender, amount) ==
    /\ Stimulus
    /\ LET call == ExecCall(contract, signer, ApproveArgs(spender, amount))
       IN \E out \in IF call = <<>> THEN {"raised"} ELSE ExecOutcomes(call[1]) :
            /\ lastCall' = [op |-> "approve", spender |-> spender, amount |-> amount,
                            contract |-> contract, signer |-> signer, exec |-> call,
                            outcome |-> useContractCall(out # "receipt")]
            /\ allowance' = IF out = "receipt"
                             THEN MergeAllowance(allowance, spender, amount)
                             ELSE allowance
    /\ UNCHANGED <<listeners, subVars, propVars, contract, balance, totalSupply, subs,
                   pending, newestDone, writer, balanceRead, last>>

\* approve(contractAddress, amount)
Approve(spender, amount) ==
    /\ Stimulus
    /\ LET call == ExecCall(contract, signer, ApproveArgs(spender, amount))
       IN \E out \in IF call = <<>> THEN {"raised"} ELSE ExecOutcomes(call[1]) :
            lastCall' = [op |-> "approve", spender |-> spender, amount |-> amount,
                         contract |-> contract, signer |-> signer, exec |-> call,
                         outcome |-> useContractCall(out # "receipt")]
    /\ UNCHANGED <<listeners, subVars, propVars, contract, viewVars, subs, pending,
                   newestDone, writer, balanceRead,
                   last>>

\* approveInfinity(contractAddress)
ApproveInfinity(spender) ==
    /\ Stimulus
    /\ LET call == ExecCall(contract, signer, InfinityArgs(spender))
       IN \E out \in IF call = <<>> THEN {"raised"} ELSE ExecOutcomes(call[1]) :
            lastCall' = [op |-> "approveInfinity", spender |-> spender,
                         contract |-> contract, signer |-> signer, exec |-> call,
                         outcome |-> useContractCall(out # "receipt")]
    /\ UNCHANGED <<listeners, subVars, propVars, contract, viewVars, subs, pending,
                   newestDone, writer, balanceRead,
                   last>>

\* the contract objects that can emit to a listener
Emitters == ({contract} \cup {l.contract : l \in listeners}) \ {NoContract}

\* a render changes one of the container values `keys`, or the token
NextProps(keys) ==
    {p \in AllProps :
        /\ \A k \in {"erc20", "multicallProvider", "account", "signer"} \ keys :
              p[k] = Props[k]
        /\ Cardinality({k \in keys : p[k] # Props[k]})
           + (IF p.address # address THEN 1 ELSE 0) = 1}

\* the data feeds of the hook: renders, queries, events, settling reads
Init == \E p \in AllProps : p.signer = NULL /\ Mount(p)

Next ==
    \/ \E p \in NextProps({"erc20", "multicallProvider", "account"}) : Render(p)
    \/ \E s \in Spenders \cup {""} : Query(s)
    \/ \E c \in Emitters, from \in Parties, to \in Parties : EmitTransfer(c, from, to)
    \/ \E c \in Emitters, owner \in Parties, s \in Spenders : EmitApproval(c, owner, s)
    \/ \E r \in BagToSet(pending), res \in Settlements : Complete(r, res)

Spec == Init /\ [][Next]_vars

\* the actions of the hook: approve and approveInfinity, among renders that
\* change the contract binding or the signer, queries and settling reads
ActInit == \E p \in AllProps : Mount(p)

ActNext ==
    \/ \E p \in NextProps({"erc20", "signer"}) : Render(p)
    \/ \E s \in Spenders \cup {""} : Query(s)
    \/ \E r \in BagToSet(pending), res \in Settlements : Complete(r, res)
    \/ \E s \in Spenders, a \in Amounts : Approve(s, a)
    \/ \E s \in Spenders : ApproveInfinity(s)

SpecAct == ActInit /\ [][ActNext]_vars

\* the data feeds and the actions together
SpecAll == ActInit /\ [][Next \/ ActNext]_vars

\* the feed f has a read in flight
Fetching(f) == \E r \in BagToSet(pending) : r.origin = f

\* the reads of the feed f that settle
Settle(f) ==
    \E r \in BagToSet(pending), res \in Settlements : r.origin = f /\ Complete(r, res)

\* the data feeds when every awaited read settles at some time
SpecLive == Spec /\ \A f \in Feeds : WF_vars(Settle(f))

\* ------------------------------------------- standalone subscriber: steps
SubInit ==
    \E c \in Contracts \cup {NoContract}, e \in EventNames \cup {""}, cb \in Handlers :
        LET r == UceCommit(UceFresh, {}, c, e, cb, 1)
        IN /\ uceProps = [contract |-> c, eventName |-> e, callback |-> cb]
           /\ uce = r.inst
           /\ listeners = r.ls
           /\ onCalls = r.on
           /\ offCalls = r.off
           /\ calls = r.calls
           /\ skipped = ~SubscribeGuard(c, e)
           /\ invoked = <<>>
           /\ mounted = TRUE
           /\ TokIdle

\* a re-render with (possibly) new arguments
SubRender(c, e, cb) ==
    /\ mounted
    /\ DepsChanged(uce, c, e) /\ SubscribeGuard(c, e) => onCalls < MaxListeners
    /\ LET r == UceCommit(uce, listeners, c, e, cb, onCalls + 1)
       IN /\ uceProps' = [contract |-> c, eventName |-> e, callback |-> cb]
          /\ uce' = r.inst
          /\ listeners' = r.ls
          /\ onCalls' = onCalls + r.on
          /\ offCalls' = offCalls + r.off
          /\ calls' = r.calls
    /\ skipped' = (skipped \/ (DepsChanged(uce, c, e) /\ ~SubscribeGuard(c, e)))
    /\ invoked' = <<>>
    /\ UNCHANGED <<mounted, tokVars>>

\* contract c emits event e
SubEmit(c, e) ==
    /\ invoked' = Deliver(uce.saved, Registered(listeners, c, e))
    /\ UNCHANGED <<listeners, uceProps, uce, onCalls, offCalls, calls, skipped, mounted,
                   tokVars>>

\* the owning component unmounts
SubUnmount ==
    /\ mounted
    /\ LET r == UceUnmount(uce, listeners)
       IN /\ uce' = r.inst
          /\ listeners' = r.ls
          /\ offCalls' = offCalls + r.off
          /\ calls' = r.calls
    /\ mounted' = FALSE
    /\ UNCHANGED <<uceProps, onCalls, skipped, invoked, tokVars>>

SubNext ==
    \/ \E c \in Contracts \cup {NoContract}, e \in EventNames \cup {""}, cb \in Handlers :
          SubRender(c, e, cb)
    \/ \E c \in Contracts, e \in EventNames : SubEmit(c, e)
    \/ SubUnmount

SpecSub == SubInit /\ [][SubNext]_vars

\* ------------------------------------------------------------------ claims
\* C1: one useContractEvent instance never has more than one listener that
\* it registered with contract.on and has not removed with contract.off,
\* counted over all contracts and events, and has none once its owning
\* component is unmounted.
C1_AtMostOneListener ==
    /\ Cardinality(listeners) <= 1
    /\ ~mounted => listeners = {}

\* the contract and the event name both changed identity more than once,
\* and the component was then unmounted with a listener still installed
C1_Witness ==
    /\ ~mounted
    /\ onCalls = MaxListeners
    /\ offCalls = MaxListeners

\* C2: a re-render that replaces the handler and keeps contract and
\* eventName makes no contract.on / contract.off call, and an event then
\* delivered on that channel invokes the newest handler exactly once and no
\* earlier handler.
C2_NewestHandlerOnly ==
    [][/\ \A cb \in Handlers :
            SubRender(uceProps.contract, uceProps.eventName, cb)
                => onCalls' = onCalls /\ offCalls' = offCalls /\ listeners' = listeners
       /\ (/\ SubEmit(uceProps.contract, uceProps.eventName)
           /\ mounted /\ uceProps.contract # NoContract /\ uceProps.eventName # "")
                => invoked' = <<uceProps.callback>>]_vars

\* an event was delivered after the handler had been replaced: the handler
\* invoked is not the one the listener was installed with
C2_Witness ==
    /\ invoked = <<uceProps.callback>>
    /\ \E l \in listeners :
          /\ l.contract = uceProps.contract /\ l.eventName = uceProps.eventName
          /\ l.installedWith # uceProps.callback

\* C3: when a polling feed (total supply, balance) has issued a newer read
\* and that newer read has already stored its result, the older read of the
\* same feed settling afterwards does not overwrite the stored value.
C3_NoStaleOverwrite ==
    [][\A r \in BagToSet(pending), v \in RawValues :
          (/\ Complete(r, Resolved(v))
           /\ r.origin \in Polls /\ r.superseded /\ newestDone[r.origin])
              => totalSupply' = totalSupply /\ balance' = balance]_vars

\* C4: a successful queryAllowanceBySpender read sets the entry of its own
\* spender to the value read and keeps every other entry of the mapping, so
\* two successful queries for different spenders leave both keys.
C4_QueryMerges ==
    [][\A r \in BagToSet(pending), v \in RawValues :
          (Complete(r, Resolved(v)) /\ r.origin = "queryAllowanceBySpender")
              => /\ DOMAIN allowance' = DOMAIN allowance \cup {r.spender}
                 /\ allowance'[r.spender] = bigNum2Big(v, r.decimals)
                 /\ \A s \in DOMAIN allowance \ {r.spender} :
                       allowance'[s] = allowance[s]]_vars

\* two queries for different spenders have both succeeded
C4_Witness ==
    /\ last.op = "complete" /\ last.origin = "queryAllowanceBySpender" /\ last.ok
    /\ Cardinality(DOMAIN allowance) = 2
    /\ \A s \in DOMAIN allowance : writer[s] = "queryAllowanceBySpender"

\* C5: a Transfer event whose from and to both differ from the connected
\* account issues no read and leaves balance, totalSupply and allowance
\* unchanged; a Transfer event issues a balanceOf read only if the account
\* is its sender or its receiver.
C5_ForeignTransferIgnored ==
    [][\A c \in Emitters, from \in Parties, to \in Parties :
          EmitTransfer(c, from, to)
              => /\ (from # account /\ to # account)
                      => pending' = pending /\ UNCHANGED viewVars
                 /\ pending' # pending => from = account \/ to = account]_vars

\* the Transfer listener was invoked, with an account connected, for a
\* transfer between two other addresses
C5_Witness ==
    /\ last.op = "Transfer" /\ last.delivered = 1
    /\ account # NULL /\ last.from # account /\ last.to # account

\* C6: an Approval(owner, spender) event whose owner is the connected
\* account issues exactly one allowance(owner, spender) read; when that read
\* succeeds it sets allowance[spender] to the value read and leaves the other
\* spenders' entries, balance and totalSupply as they were.
C6_ApprovalUpdatesSpender ==
    [][/\ \A c \in Emitters, owner \in Parties, s \in Spenders :
            (EmitApproval(c, owner, s) /\ c = contract /\ owner = account)
                => pending' = pending (+) SetToBag({Req("Approval", "allowance",
                                  contract.address, owner, s, decimals)})
       /\ \A r \in BagToSet(pending), v \in RawValues :
            (Complete(r, Resolved(v)) /\ r.origin = "Approval")
                => /\ DOMAIN allowance' = DOMAIN allowance \cup {r.spender}
                   /\ allowance'[r.spender] = bigNum2Big(v, r.decimals)
                   /\ \A s \in DOMAIN allowance \ {r.spender} :
                         allowance'[s] = allowance[s]
                   /\ balance' = balance /\ totalSupply' = totalSupply]_vars

\* the read of an Approval event has succeeded while the mapping held the
\* entry of another spender
C6_Witness ==
    /\ last.op = "complete" /\ last.origin = "Approval" /\ last.ok
    /\ last.spender \in DOMAIN allowance
    /\ \E s \in DOMAIN allowance : s # last.spender

\* C7: an Approval(owner, spender) event whose owner differs from the
\* connected account issues no read and leaves the allowance mapping
\* unchanged.
C7_ForeignApprovalIgnored ==
    [][\A c \in Emitters, owner \in Parties, s \in Spenders :
          (EmitApproval(c, owner, s) /\ owner # account)
              => pending' = pending /\ allowance' = allowance]_vars

\* the Approval listener was invoked, with an account connected, for an
\* approval granted by another owner
C7_Witness ==
    /\ last.op = "Approval" /\ last.delivered = 1
    /\ account # NULL /\ last.owner # account

\* C8: every approveInfinity(spender) call that reaches executeWithGasLimit
\* passes method "approve" with the arguments [spender, MaxUint256].
C8_InfinityArgs ==
    (lastCall.op = "approveInfinity" /\ lastCall.exec # <<>>)
        => /\ lastCall.exec[1].method = "approve"
           /\ lastCall.exec[1].args = [spender |-> lastCall.spender, amount |-> MaxUint256]

\* approveInfinity reached executeWithGasLimit for a spender whose
\* allowance had been queried before
C8_Witness ==
    /\ lastCall.op = "approveInfinity" /\ lastCall.exec # <<>>
    /\ lastCall.spender \in DOMAIN allowance

C10_FailFast ==
    (/\ lastCall.op \in {"approve", "approveInfinity"}
     /\ (lastCall.contract = NoContract \/ lastCall.signer = NULL))
        => lastCall.exec = <<>> /\ lastCall.outcome = "failure"

C12_SamePairIdempotent ==
    [][\A cb \in Handlers :
          SubRender(uceProps.contract, uceProps.eventName, cb)
              => /\ calls' = <<>>
                 /\ onCalls' = onCalls /\ offCalls' = offCalls
                 /\ listeners' = listeners
                 /\ uce'.cleanup = uce.cleanup /\ uce'.deps = uce.deps]_vars

\* the first listener installed is still the only one after a re-render
\* that kept the pair and passed another handler
C12_Witness ==
    /\ mounted /\ calls = <<>> /\ invoked = <<>>
    /\ onCalls = 1 /\ offCalls = 0
    /\ \E l \in listeners :
          /\ listeners = {l}
          /\ l.contract = uceProps.contract /\ l.eventName = uceProps.eventName
          /\ l.installedWith # uceProps.callback

\* C13: while the contract or the eventName is absent, useContractEvent has
\* no listener installed and no cleanup registered, and a render with either
\* absent makes no contract.on call; a later render with both present makes
\* exactly one contract.on call and leaves exactly one listener.
C13_AbsentIsNoOp ==
    /\ []((mounted /\ (uceProps.contract = NoContract \/ uceProps.eventName = ""))
            => listeners = {} /\ uce.cleanup = {})
    /\ [][\A c \in Contracts \cup {NoContract}, e \in EventNames \cup {""}, cb \in Handlers :
            SubRender(c, e, cb)
                => /\ (c = NoContract \/ e = "")
                        => /\ onCalls' = onCalls
                           /\ \A k \in 1..Len(calls') : calls'[k].op # "on"
                   /\ (/\ (uceProps.contract = NoContract \/ uceProps.eventName = "")
                       /\ c # NoContract /\ e # "")
                        => /\ onCalls' = onCalls + 1 /\ offCalls' = offCalls
                           /\ Len(calls') = 1 /\ calls'[1].op = "on"
                           /\ calls'[1].contract = c /\ calls'[1].eventName = e
                           /\ Cardinality(listeners') = 1]_vars

\* the contract or the eventName was absent at first, then both were
\* present: the only contract.on call made so far installed the one listener
C13_Witness ==
    /\ mounted /\ skipped
    /\ uceProps.contract # NoContract /\ uceProps.eventName # ""
    /\ onCalls = 1 /\ offCalls = 0
    /\ Cardinality(listeners) = 1

\* C15: a render of useContractEvent that changes the contract or the
\* eventName while a listener is installed first calls contract.off on the
\* old contract with the old eventName and the installed listener function,
\* and only then contract.on for the new pair (if both are present); the old
\* listener is gone afterwards, and an event of any other (contract, event)
\* than the current pair invokes no handler.
C15_OldListenerRemovedFirst ==
    [][/\ \A c \in Contracts \cup {NoContract}, e \in EventNames \cup {""}, cb \in Handlers :
            (/\ SubRender(c, e, cb)
             /\ <<c, e>> # <<uceProps.contract, uceProps.eventName>>
             /\ uceProps.contract # NoContract /\ uceProps.eventName # "")
                => \E l \in listeners :
                      /\ l.contract = uceProps.contract
                      /\ l.eventName = uceProps.eventName
                      /\ Len(calls') >= 1 /\ calls'[1] = Call("off", l)
                      /\ l \notin listeners'
                      /\ \A m \in listeners' : m.contract = c /\ m.eventName = e
                      /\ IF c # NoContract /\ e # ""
                         THEN /\ Len(calls') = 2 /\ calls'[2].op = "on"
                              /\ calls'[2].contract = c /\ calls'[2].eventName = e
                              /\ calls'[2].lid # l.lid
                         ELSE Len(calls') = 1
       /\ \A c \in Contracts, e \in EventNames :
            (SubEmit(c, e) /\ <<c, e>> # <<uceProps.contract, uceProps.eventName>>)
                => invoked' = <<>>]_vars

\* the latest render moved the subscription from one contract to another
C15_Witness ==
    /\ mounted /\ Len(calls) = 2
    /\ calls[1].op = "off" /\ calls[2].op = "on"
    /\ calls[1].contract # calls[2].contract
    /\ calls[2].contract = uceProps.contract

\* C14: a read that fails writes nothing: balance, totalSupply and allowance
\* keep their values and the read is no longer in flight; and a feed that has
\* a read in flight has none in flight at some later time, once its reads
\* have settled.
C14_FailedReadKeepsValue ==
    /\ [][\A r \in BagToSet(pending) :
            Complete(r, Rejection)
                => /\ UNCHANGED viewVars
                   /\ CopiesIn(r, pending') = CopiesIn(r, pending) - 1]_vars
    /\ \A f \in Feeds : Fetching(f) ~> ~Fetching(f)

\* a total-supply read failed after an earlier one had stored a value, and
\* the feed has no read in flight
C14_Witness ==
    /\ last.op = "complete" /\ last.origin = "fetchToken" /\ ~last.ok
    /\ totalSupply # BIG_ZERO
    /\ ~Fetching("fetchToken")

\* C16: a total-supply read that settles leaves balance and allowance as they
\* were, a balance read of the polling feed that settles leaves totalSupply
\* and allowance as they were, and when one read of each of the two polling
\* feeds is in flight, settling them in either order gives the same
\* view-state.
C16_PollsWriteOwnField ==
    /\ [][\A r \in BagToSet(pending), res \in Settlements :
            Complete(r, res)
                => /\ r.origin = "fetchToken"
                        => balance' = balance /\ allowance' = allowance
                   /\ r.origin = "fetchBalance"
                        => totalSupply' = totalSupply /\ allowance' = allowance]_vars
    /\ [](\A r1 \in BagToSet(pending), r2 \in BagToSet(pending) :
            \A res1 \in Settlements, res2 \in Settlements :
                (r1.origin = "fetchToken" /\ r2.origin = "fetchBalance")
                    => Written(Written(View, r1, res1), r2, res2)
                       = Written(Written(View, r2, res2), r1, res1))

\* the two reads issued together by the first render have both stored
\* their results
C16_Witness ==
    /\ stimuli = 0 /\ pending = EmptyBag
    /\ last.op = "complete" /\ last.origin \in Polls /\ last.ok
    /\ totalSupply # BIG_ZERO /\ balance # BIG_ZERO

\* C17: whenever no read is in flight, balance is its initial zero or the
\* result of a balanceOf read that was issued for the address the hook is
\* bound to now and for the account connected now.
C17_BalanceIsCurrent ==
    pending = EmptyBag
        => \/ balanceRead = NoRead /\ balance = BIG_ZERO
           \/ balanceRead.address = address /\ balanceRead.who = account

\* C18: the allowance mapping starts empty, and a key is added to it only by
\* the successful read of a queryAllowanceBySpender call, for the spender
\* passed, or by the successful read of an Approval event, for the spender
\* the event carried; that event's owner was the account connected when it
\* was delivered.  Renders, polls, Transfer events, approve and
\* approveInfinity add no key.
C18_AllowanceKeys ==
    /\ allowance = <<>>
    /\ [][/\ DOMAIN allowance' # DOMAIN allowance
                => \E r \in BagToSet(pending), v \in RawValues :
                      /\ Complete(r, Resolved(v))
                      /\ r.origin \in {"queryAllowanceBySpender", "Approval"}
                      /\ r.spender \in Spenders
                      /\ DOMAIN allowance' = DOMAIN allowance \cup {r.spender}
          /\ \A q \in BagToSet(pending') :
                (q.origin = "Approval" /\ CopiesIn(q, pending') > CopiesIn(q, pending))
                    => /\ account # NULL /\ q.who = account
                       /\ \E c \in Emitters, s \in Spenders :
                             EmitApproval(c, account, s) /\ q.spender = s]_vars

\* the mapping holds one key written by a query and one written by the
\* read of an Approval event
C18_Witness ==
    /\ Cardinality(DOMAIN allowance) = 2
    /\ \E s \in DOMAIN allowance, t \in DOMAIN allowance :
          writer[s] = "queryAllowanceBySpender" /\ writer[t] = "Approval"

\* C19: approve and approveInfinity, whether the transaction succeeds or
\* fails, leave balance, totalSupply and allowance unchanged and issue no
\* read; the allowance mapping changes only when the read of an Approval
\* event or of a queryAllowanceBySpender call succeeds.
C19_ActionsWriteNothing ==
    [][/\ \A s \in Spenders, a \in Amounts :
            Approve(s, a) => UNCHANGED viewVars /\ pending' = pending
       /\ \A s \in Spenders :
            ApproveInfinity(s) => UNCHANGED viewVars /\ pending' = pending
       /\ allowance' # allowance
            => \E r \in BagToSet(pending), v \in RawValues :
                  /\ Complete(r, Resolved(v))
                  /\ r.origin \in {"queryAllowanceBySpender", "Approval"}]_vars

\* an approve transaction has succeeded for a spender whose allowance entry
\* holds a value that was read and differs from the amount approved
C19_Witness ==
    /\ lastCall.op = "approve" /\ lastCall.exec # <<>> /\ lastCall.outcome = "receipt"
    /\ lastCall.spender \in DOMAIN allowance
    /\ allowance[lastCall.spender] # lastCall.amount
    /\ pending = EmptyBag

\* C20: when two allowance reads for different spenders are in flight (from
\* queryAllowanceBySpender calls, Approval events, or one of each), their
\* successful completions give the same mapping in either order: it holds
\* the value read for each of the two spenders and every entry the mapping
\* had before, whatever those entries were.
C20_NoLostAllowanceUpdate ==
    \A r1 \in BagToSet(pending), r2 \in BagToSet(pending) :
        (r1.method = "allowance" /\ r2.method = "allowance" /\ r1.spender # r2.spender)
            => \A v1 \in RawValues, v2 \in RawValues :
               \A prev \in {allowance} \cup
                           {MergeAllowance(allowance, s, bigNum2Big(v, t.decimals)) :
                               s \in Spenders, v \in RawValues, t \in Tokens} :
                  LET V == [View EXCEPT !.allowance = prev]
                      a12 == Written(Written(V, r1, Resolved(v1)), r2, Resolved(v2)).allowance
                      a21 == Written(Written(V, r2, Resolved(v2)), r1, Resolved(v1)).allowance
                  IN /\ a12 = a21
                     /\ DOMAIN a12 = DOMAIN prev \cup {r1.spender, r2.spender}
                     /\ a12[r1.spender] = bigNum2Big(v1, r1.decimals)
                     /\ a12[r2.spender] = bigNum2Big(v2, r2.decimals)
                     /\ \A s \in DOMAIN prev \ {r1.spender, r2.spender} : a12[s] = prev[s]

\* of two allowance reads that were in flight together, one from a query
\* and one from an Approval event, the first has just stored its value and
\* the other, for another spender, is still in flight
C20_Witness ==
    /\ last.op = "complete" /\ last.ok /\ last.spender \in DOMAIN allowance
    /\ \E r \in BagToSet(pending) :
          /\ r.method = "allowance" /\ r.spender \notin DOMAIN allowance
          /\ r.origin # last.origin

====
